---- MODULE Spec2Model ----
(***************************************************************************)
(* git-pack: multi_index::File::write_from_index_paths, the writer of a    *)
(* multi-pack index from a list of pack index files.                       *)
(*                                                                         *)
(* A path is a pair <<directory, file name>> of small integers; paths are  *)
(* ordered component by component, as PathBuf orders them.  A file name n  *)
(* stands for a name of n bytes.  An object id is a small integer, which   *)
(* is also the value of its leading byte.  A number that may not fit in 31 *)
(* bits is a pair <<hi, lo>> standing for hi * 2^31 + lo with lo < 2^31, so *)
(* that hi = 1 in a 32-bit value is its high bit.  Everything written to   *)
(* the sink is a sequence of fields [w |-> width in bytes, v |-> <<hi, lo>>, *)
(* n |-> the number of consecutive copies of the field].                   *)
(***************************************************************************)
EXTENDS Integers, Sequences, FiniteSets

\* ------------------------------------------------------------------ bounds
\* The longest list of index paths handed to write_from_index_paths.
MaxPaths == 2

\* The most shared guards held at once on one field of an easy::State.
MaxGuards == 2

\* ------------------------------------------------------- the input universe
PathUniverse == {<<1, 2>>, <<2, 1>>}
Oids == {1, 2}
\* Times count from UNIX_EPOCH, which the code substitutes for an unavailable
\* modification time.
UNIX_EPOCH == 0
Mtimes == {UNIX_EPOCH, 1}
\* The largest offset that fits in 31 bits.
LARGE_OFFSET_THRESHOLD == 2147483647
\* The offsets a pack may hold an object at: 2^31 - 1 or 2^32 + 5 for the first
\* object, 2^31 for the second.
OffsetsOf(oid) ==
    IF oid = 1 THEN {<<0, LARGE_OFFSET_THRESHOLD>>, <<2, 5>>} ELSE {<<1, 0>>}
\* The high bit of a 32-bit value.
HIGH_BIT == <<1, 0>>

\* ------------------------------------------------------- program constants
SIGNATURE == 1296647256
HEADER_LEN == 12
Version_V1 == 1
Kind_Sha1 == 1
HashLen == 20
FANOUT_SLOTS == 256
CHUNK_ENTRY_SIZE == 12

index_names_ID == 1
fanout_ID == 2
lookup_ID == 3
offsets_ID == 4
large_offsets_ID == 5

\* ------------------------------------------------------------------ helpers
Range(s) == {s[i] : i \in DOMAIN s}

RECURSIVE SeqSum(_)
SeqSum(s) == IF s = <<>> THEN 0 ELSE Head(s) + SeqSum(Tail(s))

RECURSIVE Flatten(_)
Flatten(ss) == IF ss = <<>> THEN <<>> ELSE Head(ss) \o Flatten(Tail(ss))

\* Ord for PathBuf: component by component.
PathLess(p, q) == p[1] < q[1] \/ (p[1] = q[1] /\ p[2] < q[2])

\* A slip: the paths are not sorted.
SortPathsOmitted(paths) == paths

\* index_paths.sort(): a stable sort, by insertion behind every element that is
\* not greater.
RECURSIVE InsertPath(_, _)
InsertPath(x, s) ==
    IF s = <<>> THEN <<x>>
    ELSE IF PathLess(x, Head(s)) THEN <<x>> \o s
    ELSE <<Head(s)>> \o InsertPath(x, Tail(s))

RECURSIVE SortPaths(_)
SortPaths(paths) ==
    IF paths = <<>> THEN <<>>
    ELSE InsertPath(paths[Len(paths)], SortPaths(SubSeq(paths, 1, Len(paths) - 1)))

\* p.file_name(): the terminal component.
FileName(p) == p[2]

FileNames(paths) == [i \in DOMAIN paths |-> FileName(paths[i])]

\* ------------------------------------------------------------- pack indices
\* The records of a pack index, in the order index.iter() yields them:
\* ascending object ids, each id once.
RECURSIVE RecordSeqs(_)
RecordSeqs(ids) ==
    IF ids = {} THEN {<<>>}
    ELSE LET m == CHOOSE x \in ids : \A y \in ids : y <= x
         IN  RecordSeqs(ids \ {m})
             \cup {r \o <<[oid |-> m, pack_offset |-> o]>> :
                      r \in RecordSeqs(ids \ {m}), o \in OffsetsOf(m)}

\* A file on disk.  modified is what metadata().and_then(|m| m.modified())
\* gives: <<t>> for Ok(t), <<>> for Err.  A readable index has a modification
\* time (one without resolves to UNIX_EPOCH, which is among Mtimes); a file
\* that crate::index::File::at rejects may have none.
IndexFiles ==
    [modified : {<<t>> : t \in Mtimes}, readable : {TRUE}, records : RecordSeqs(Oids)]
    \cup [modified : {<<>>, <<1>>}, readable : {FALSE}, records : {<<>>}]

\* index.metadata().and_then(|m| m.modified()).unwrap_or(UNIX_EPOCH)
ResolveMtime(file) == IF file.modified = <<>> THEN UNIX_EPOCH ELSE file.modified[1]

\* The entries one index contributes: index.iter().map(|e| Entry {..}).
EntriesOf(file, index_id) ==
    [i \in DOMAIN file.records |->
        [id |-> file.records[i].oid,
         pack_index |-> index_id,
         pack_offset |-> file.records[i].pack_offset,
         index_mtime |-> ResolveMtime(file)]]

\* ------------------------------------------------------------- deduplication
\* A slip: the comparison of the modification times is not reversed.
EntryLessOldestFirst(l, r) ==
    \/ l.id < r.id
    \/ l.id = r.id /\ l.index_mtime < r.index_mtime
    \/ l.id = r.id /\ l.index_mtime = r.index_mtime /\ l.pack_index < r.pack_index

\* The comparator of entries.sort_by: id, then newest mtime first, then pack_index.
EntryLess(l, r) ==
    \/ l.id < r.id
    \/ l.id = r.id /\ l.index_mtime > r.index_mtime
    \/ l.id = r.id /\ l.index_mtime = r.index_mtime /\ l.pack_index < r.pack_index

RECURSIVE InsertEntry(_, _)
InsertEntry(x, s) ==
    IF s = <<>> THEN <<x>>
    ELSE IF EntryLess(x, Head(s)) THEN <<x>> \o s
    ELSE <<Head(s)>> \o InsertEntry(x, Tail(s))

\* entries.sort_by(..): a stable sort.
RECURSIVE SortEntries(_)
SortEntries(es) ==
    IF es = <<>> THEN <<>>
    ELSE InsertEntry(es[Len(es)], SortEntries(SubSeq(es, 1, Len(es) - 1)))

\* A slip: dedup() in place of dedup_by_key, which compares whole entries.
RECURSIVE DedupWholeEntries(_)
DedupWholeEntries(es) ==
    IF Len(es) <= 1 THEN es
    ELSE LET rest == DedupWholeEntries(SubSeq(es, 1, Len(es) - 1))
         IN  IF es[Len(es)] = rest[Len(rest)] THEN rest
             ELSE rest \o <<es[Len(es)]>>

\* entries.dedup_by_key(|e| e.id): of each run of consecutive entries with the
\* same id the first is kept.
RECURSIVE DedupByKey(_)
DedupByKey(es) ==
    IF Len(es) <= 1 THEN es
    ELSE LET rest == DedupByKey(SubSeq(es, 1, Len(es) - 1))
         IN  IF es[Len(es)].id = rest[Len(rest)].id THEN rest
             ELSE rest \o <<es[Len(es)]>>

\* Lines 107-112: sort, then collapse.
Deduplicate(es) == DedupByKey(SortEntries(es))

\* ------------------------------------------------------------ chunk writers
Field(width, value) == [w |-> width, v |-> value, n |-> 1]

\* count consecutive fields of the same width and value.
Repeat(width, value, count) == [w |-> width, v |-> value, n |-> count]

\* A number below 2^31.
Num(n) == <<0, n>>

ByteLen(fields) == SeqSum([i \in DOMAIN fields |-> fields[i].w * fields[i].n])

\* An offset of 2^31 or more.
NeedsLargeOffset(e) == e.pack_offset[1] >= HIGH_BIT[1]

\* large_offsets::num_large_offsets
NumLargeOffsets(es) == Cardinality({i \in DOMAIN es : NeedsLargeOffset(es[i])})

\* index_names::write: each name, then its NUL terminator, one write each.
NamesPayload(names) ==
    Flatten([i \in DOMAIN names |->
        <<Field(names[i], Num(names[i])), Field(1, Num(0))>>])

\* fanout::write: slot b counts the entries whose leading byte is <= b.
FanoutSlot(es, b) == Cardinality({i \in DOMAIN es : es[i].id <= b})

\* The slots at which the count changes: slot 0 and the leading byte of every id.
FanoutBreaks(es) == {0} \cup {es[i].id : i \in DOMAIN es}

\* The slots from b on, each run of equal counts as one repeated field: a run
\* ends before the next slot at which the count changes.
RECURSIVE FanoutRuns(_, _)
FanoutRuns(es, b) ==
    LET later == {x \in FanoutBreaks(es) : x > b}
        next == IF later = {} THEN FANOUT_SLOTS
                ELSE CHOOSE x \in later : \A y \in later : x <= y
    IN  <<Repeat(4, Num(FanoutSlot(es, b)), next - b)>>
        \o (IF later = {} THEN <<>> ELSE FanoutRuns(es, next))

FanoutPayload(es) == FanoutRuns(es, 0)

\* lookup::write: the ids.
LookupPayload(es) == [i \in DOMAIN es |-> Field(HashLen, Num(es[i].id))]

\* The index into the large-offset chunk of the i-th entry: the number of
\* entries before it that need a large offset.
LargeIndex(es, i) == Cardinality({j \in 1..(i - 1) : NeedsLargeOffset(es[j])})

\* offsets::write: pack_index, then the offset or the marked large-offset index.
OffsetSlot(es, i) ==
    IF NeedsLargeOffset(es[i]) THEN <<HIGH_BIT[1], LargeIndex(es, i)>>
    ELSE es[i].pack_offset

OffsetsPayload(es) ==
    Flatten([i \in DOMAIN es |->
        <<Field(4, Num(es[i].pack_index)), Field(4, OffsetSlot(es, i))>>])

\* large_offsets::write: the full offset of every entry that needs one.
RECURSIVE LargeOffsetsPayload(_)
LargeOffsetsPayload(es) ==
    IF es = <<>> THEN <<>>
    ELSE (IF NeedsLargeOffset(Head(es)) THEN <<Field(8, Head(es).pack_offset)>>
          ELSE <<>>) \o LargeOffsetsPayload(Tail(es))

\* The storage_size functions of the chunks.
NamesSize(names) == SeqSum([i \in DOMAIN names |-> names[i] + 1])
FanoutSize == FANOUT_SLOTS * 4
LookupSize(n) == n * HashLen
OffsetsSize(n) == n * 8
LargeOffsetsSize(n) == n * 8

\* ----------------------------------------------------------- chunk file index
\* cf.plan_chunk(id, size)
PlanChunk(plan, id, size) == Append(plan, [id |-> id, size |-> size])

\* A slip: the large-offset chunk is planned unconditionally.
PlannedChunksAlwaysLarge(names, es) ==
    PlanChunk(PlanChunk(PlanChunk(PlanChunk(PlanChunk(<<>>,
        index_names_ID, NamesSize(names)),
        fanout_ID, FanoutSize),
        lookup_ID, LookupSize(Len(es))),
        offsets_ID, OffsetsSize(Len(es))),
        large_offsets_ID, LargeOffsetsSize(NumLargeOffsets(es)))

\* Lines 117-138: the chunks planned for the names and the entries.
PlannedChunks(names, es) ==
    LET base == PlanChunk(PlanChunk(PlanChunk(PlanChunk(<<>>,
                    index_names_ID, NamesSize(names)),
                    fanout_ID, FanoutSize),
                    lookup_ID, LookupSize(Len(es))),
                    offsets_ID, OffsetsSize(Len(es)))
    IN  IF NumLargeOffsets(es) > 0
        THEN PlanChunk(base, large_offsets_ID, LargeOffsetsSize(NumLargeOffsets(es)))
        ELSE base

\* cf.into_write(out, offset): the table of contents, one entry per chunk with
\* the offset of its payload, closed by the entry of id 0 with the end offset.
ChunkOffset(plan, k, start) ==
    start + (Len(plan) + 1) * CHUNK_ENTRY_SIZE
          + SeqSum([i \in 1..(k - 1) |-> plan[i].size])

ChunkTable(plan, start) ==
    Flatten([k \in 1..(Len(plan) + 1) |->
        <<Field(4, Num(IF k <= Len(plan) THEN plan[k].id ELSE 0)),
          Field(8, Num(ChunkOffset(plan, k, start)))>>])

\* A slip: the arm of the large-offset chunk calls the offsets writer.
ChunkPayloadWrongArm(id, names, es) ==
    CASE id = index_names_ID -> NamesPayload(names)
      [] id = fanout_ID -> FanoutPayload(es)
      [] id = lookup_ID -> LookupPayload(es)
      [] id = offsets_ID -> OffsetsPayload(es)
      [] id = large_offsets_ID -> OffsetsPayload(es)

\* Lines 148-159: the writer a chunk id is dispatched to.
ChunkPayload(id, names, es) ==
    CASE id = index_names_ID -> NamesPayload(names)
      [] id = fanout_ID -> FanoutPayload(es)
      [] id = lookup_ID -> LookupPayload(es)
      [] id = offsets_ID -> OffsetsPayload(es)
      [] id = large_offsets_ID -> LargeOffsetsPayload(es)

\* write_header: the six fields of the header.
HeaderFields(num_chunks, num_indices, object_hash) ==
    <<Field(4, Num(SIGNATURE)), Field(1, Num(Version_V1)), Field(1, Num(object_hash)),
      Field(1, Num(num_chunks)), Field(1, Num(0)), Field(4, Num(num_indices))>>

\* out.hash.digest(): a digest stands for the input it was computed from.
Digest(fed) == [digest_of |-> fed]

\* -------------------------------------------------------------------- state
VARIABLES
    fs,                      \* the files on disk, by path
    should_interrupt,        \* the caller's interrupt flag
    index_paths,             \* the argument, sorted in place
    index_filenames_sorted,
    index_id,                \* the number of indices collected so far
    entries,
    cf,                      \* the planned chunks
    num_large_offsets,
    chunk_pos,               \* the number of chunks chunk_write has handed out
    sink,                    \* out.inner: the fields that reached the sink
    hash,                    \* out.hash: the fields fed to the hasher
    multi_index_checksum,
    result,                  \* "Running", "Ok", "Io", "Interrupted", "OpenIndex"
    pc

\* git-repository: one easy::State.  A RefCell is its value (where the value
\* matters), the number of Ref guards alive and whether a RefMut guard is alive.
VARIABLES
    packed_refs,             \* RefCell<Option<refs::packed::Buffer>>
    pack_cache,              \* RefCell<PackCache>
    buf,                     \* RefCell<Vec<u8>>
    outcome                  \* what the last call on the State did

write_vars == <<fs, should_interrupt, index_paths, index_filenames_sorted, index_id,
                entries, cf, num_large_offsets, chunk_pos, sink, hash,
                multi_index_checksum, result, pc>>

easy_vars == <<packed_refs, pack_cache, buf, outcome>>

vars == <<write_vars, easy_vars>>

\* State::default(): nothing loaded, nothing borrowed.
StateDefault ==
    /\ packed_refs = [value |-> "None", readers |-> 0, writer |-> FALSE]
    /\ pack_cache = [readers |-> 0, writer |-> FALSE]
    /\ buf = [readers |-> 0, writer |-> FALSE]
    /\ outcome = "none"

PathLists == UNION {[1..n -> PathUniverse] : n \in 0..MaxPaths}

NoChecksum == [digest_of |-> <<>>]

\* The call: any list of paths in any order, any files behind them, the flag
\* set or not, an empty sink behind the hashing writer (line 69).
Init ==
    /\ index_paths \in PathLists
    /\ fs \in [Range(index_paths) -> IndexFiles]
    /\ should_interrupt \in BOOLEAN
    /\ index_filenames_sorted = <<>>
    /\ index_id = 0
    /\ entries = <<>>
    /\ cf = <<>>
    /\ num_large_offsets = 0
    /\ chunk_pos = 0
    /\ sink = <<>>
    /\ hash = <<>>
    /\ multi_index_checksum = NoChecksum
    /\ result = "Running"
    /\ pc = "sort_paths"
    /\ StateDefault

\* What a write through the hashing writer does: the bytes that reach the sink
\* are the bytes fed to the hasher.
WriteHashed(fields) ==
    /\ sink' = sink \o fields
    /\ hash' = hash \o fields

\* The first bytes of a field, what a write_all that fails midway leaves behind:
\* `of` is the width of the whole field.
Part(field, bytes) == [w |-> bytes, v |-> field.v, n |-> 1, of |-> field.w]

\* What a run of writes of the fields leaves behind when it fails: whole fields,
\* then copies copies of the next field (a repeated field is one write per
\* copy), then the first bytes bytes of its next copy.
WritePrefix(fields, whole, copies, bytes) ==
    SubSeq(fields, 1, whole)
    \o (IF copies = 0 THEN <<>>
        ELSE <<Repeat(fields[whole + 1].w, fields[whole + 1].v, copies)>>)
    \o (IF bytes = 0 THEN <<>> ELSE <<Part(fields[whole + 1], bytes)>>)

\* A failing run of writes through the hashing writer: the bytes that reached
\* the sink before the failure were fed to the hasher.
WriteHashedFails(fields) ==
    \E whole \in 0..(Len(fields) - 1) :
        \E copies \in 0..(fields[whole + 1].n - 1) :
            \E bytes \in 0..(fields[whole + 1].w - 1) :
                WriteHashed(WritePrefix(fields, whole, copies, bytes))

\* Another thread sets the flag while an index is still to be collected.
SetInterrupt ==
    /\ pc \in {"sort_paths", "collect"}
    /\ index_id < Len(index_paths)
    /\ ~should_interrupt
    /\ should_interrupt' = TRUE
    /\ UNCHANGED <<fs, index_paths, index_filenames_sorted, index_id, entries, cf,
                   num_large_offsets, chunk_pos, sink, hash, multi_index_checksum,
                   result, pc>>
    /\ UNCHANGED easy_vars

\* A slip: the header is written before the indices are collected.
NormalizePathsHeaderFirst ==
    /\ pc = "sort_paths"
    /\ index_paths' = SortPaths(index_paths)
    /\ index_filenames_sorted' = FileNames(index_paths')
    /\ WriteHashed(HeaderFields(4, Len(index_paths), Kind_Sha1))
    /\ pc' = "collect"
    /\ UNCHANGED <<fs, should_interrupt, index_id, entries, cf, num_large_offsets,
                   chunk_pos, multi_index_checksum, result>>
    /\ UNCHANGED easy_vars

\* Lines 70-77.
NormalizePaths ==
    /\ pc = "sort_paths"
    /\ index_paths' = SortPaths(index_paths)
    /\ index_filenames_sorted' = FileNames(index_paths')
    /\ pc' = "collect"
    /\ UNCHANGED <<fs, should_interrupt, index_id, entries, cf, num_large_offsets,
                   chunk_pos, sink, hash, multi_index_checksum, result>>
    /\ UNCHANGED easy_vars

\* Lines 86-101, one iteration over a readable index.
CollectIndex ==
    /\ pc = "collect"
    /\ index_id < Len(index_paths)
    /\ LET file == fs[index_paths[index_id + 1]]
       IN  /\ file.readable
           /\ entries' = entries \o EntriesOf(file, index_id)
    /\ index_id' = index_id + 1
    /\ UNCHANGED <<fs, should_interrupt, index_paths, index_filenames_sorted, cf,
                   num_large_offsets, chunk_pos, sink, hash, multi_index_checksum,
                   result, pc>>
    /\ UNCHANGED easy_vars

\* Line 91: crate::index::File::at fails.
OpenIndexFails ==
    /\ pc = "collect"
    /\ index_id < Len(index_paths)
    /\ ~fs[index_paths[index_id + 1]].readable
    /\ result' = "OpenIndex"
    /\ pc' = "failed"
    /\ UNCHANGED <<fs, should_interrupt, index_paths, index_filenames_sorted,
                   index_id, entries, cf, num_large_offsets, chunk_pos, sink, hash,
                   multi_index_checksum>>
    /\ UNCHANGED easy_vars

\* Lines 104-114.
SortAndDedup ==
    /\ pc = "collect"
    /\ index_id = Len(index_paths)
    /\ entries' = Deduplicate(entries)
    /\ pc' = "plan"
    /\ UNCHANGED <<fs, should_interrupt, index_paths, index_filenames_sorted,
                   index_id, cf, num_large_offsets, chunk_pos, sink, hash,
                   multi_index_checksum, result>>
    /\ UNCHANGED easy_vars

\* Lines 117-138.
PlanChunks ==
    /\ pc = "plan"
    /\ cf' = PlannedChunks(index_filenames_sorted, entries)
    /\ num_large_offsets' = NumLargeOffsets(entries)
    /\ pc' = "header"
    /\ UNCHANGED <<fs, should_interrupt, index_paths, index_filenames_sorted,
                   index_id, entries, chunk_pos, sink, hash, multi_index_checksum,
                   result>>
    /\ UNCHANGED easy_vars

\* Lines 140-145 and write_header.
WriteHeader ==
    /\ pc = "header"
    /\ WriteHashed(HeaderFields(Len(cf), Len(index_paths), Kind_Sha1))
    /\ pc' = "chunk_table"
    /\ UNCHANGED <<fs, should_interrupt, index_paths, index_filenames_sorted,
                   index_id, entries, cf, num_large_offsets, chunk_pos,
                   multi_index_checksum, result>>
    /\ UNCHANGED easy_vars

\* One of the six writes of write_header fails: the fields before it were
\* written, and the bytes of its own field that the sink took.
WriteHeaderFails ==
    /\ pc = "header"
    /\ WriteHashedFails(HeaderFields(Len(cf), Len(index_paths), Kind_Sha1))
    /\ result' = "Io"
    /\ pc' = "failed"
    /\ UNCHANGED <<fs, should_interrupt, index_paths, index_filenames_sorted,
                   index_id, entries, cf, num_large_offsets, chunk_pos,
                   multi_index_checksum>>
    /\ UNCHANGED easy_vars

\* Line 146: cf.into_write writes the table of contents.
IntoWrite ==
    /\ pc = "chunk_table"
    /\ WriteHashed(ChunkTable(cf, HEADER_LEN))
    /\ chunk_pos' = 0
    /\ pc' = "chunks"
    /\ UNCHANGED <<fs, should_interrupt, index_paths, index_filenames_sorted,
                   index_id, entries, cf, num_large_offsets, multi_index_checksum,
                   result>>
    /\ UNCHANGED easy_vars

\* Lines 147-160, one iteration: next_chunk hands out the next planned chunk and
\* its writer writes the payload.
WriteChunk ==
    /\ pc = "chunks"
    /\ chunk_pos < Len(cf)
    /\ WriteHashed(ChunkPayload(cf[chunk_pos + 1].id, index_filenames_sorted, entries))
    /\ chunk_pos' = chunk_pos + 1
    /\ UNCHANGED <<fs, should_interrupt, index_paths, index_filenames_sorted,
                   index_id, entries, cf, num_large_offsets, multi_index_checksum,
                   result, pc>>
    /\ UNCHANGED easy_vars

\* A slip: the checksum is written through the hashing writer and the digest
\* returned is taken afterwards.
WriteChecksumThroughHasher ==
    /\ pc = "chunks"
    /\ chunk_pos = Len(cf)
    /\ WriteHashed(<<Field(HashLen, Digest(hash))>>)
    /\ multi_index_checksum' = Digest(hash')
    /\ result' = "Ok"
    /\ pc' = "done"
    /\ UNCHANGED <<fs, should_interrupt, index_paths, index_filenames_sorted,
                   index_id, entries, cf, num_large_offsets, chunk_pos>>
    /\ UNCHANGED easy_vars

\* Lines 162-170: the digest is taken, then written to the inner sink.
WriteChecksum ==
    /\ pc = "chunks"
    /\ chunk_pos = Len(cf)
    /\ multi_index_checksum' = Digest(hash)
    /\ sink' = Append(sink, Field(HashLen, multi_index_checksum'))
    /\ result' = "Ok"
    /\ pc' = "done"
    /\ UNCHANGED <<fs, should_interrupt, index_paths, index_filenames_sorted,
                   index_id, entries, cf, num_large_offsets, chunk_pos, hash>>
    /\ UNCHANGED easy_vars

\* Line 146, a write of cf.into_write fails: the fields of the table before it
\* were written, and the bytes of its own field that the sink took.
IntoWriteFails ==
    /\ pc = "chunk_table"
    /\ WriteHashedFails(ChunkTable(cf, HEADER_LEN))
    /\ result' = "Io"
    /\ pc' = "failed"
    /\ UNCHANGED <<fs, should_interrupt, index_paths, index_filenames_sorted,
                   index_id, entries, cf, num_large_offsets, chunk_pos,
                   multi_index_checksum>>
    /\ UNCHANGED easy_vars

\* A slip: the error of a chunk writer whose first write fails is dropped and
\* the loop goes on.
WriteChunkFailsIgnored ==
    /\ pc = "chunks"
    /\ chunk_pos < Len(cf)
    /\ chunk_pos' = chunk_pos + 1
    /\ UNCHANGED <<fs, should_interrupt, index_paths, index_filenames_sorted,
                   index_id, entries, cf, num_large_offsets, sink, hash,
                   multi_index_checksum, result, pc>>
    /\ UNCHANGED easy_vars

\* Lines 147-160, a write of the writer of the chunk handed out fails: what it
\* wrote before is in the sink and the `?` returns the error.
WriteChunkFails ==
    /\ pc = "chunks"
    /\ chunk_pos < Len(cf)
    /\ WriteHashedFails(ChunkPayload(cf[chunk_pos + 1].id, index_filenames_sorted,
                                     entries))
    /\ chunk_pos' = chunk_pos + 1
    /\ result' = "Io"
    /\ pc' = "failed"
    /\ UNCHANGED <<fs, should_interrupt, index_paths, index_filenames_sorted,
                   index_id, entries, cf, num_large_offsets, multi_index_checksum>>
    /\ UNCHANGED easy_vars

\* Line 165: the write of the checksum to the inner sink fails, after the sink
\* took none or some of its bytes; nothing of it is fed to the hasher and no
\* checksum is returned.
WriteChecksumFails ==
    /\ pc = "chunks"
    /\ chunk_pos = Len(cf)
    /\ \E bytes \in 0..(HashLen - 1) :
          sink' = sink \o WritePrefix(<<Field(HashLen, Digest(hash))>>, 0, 0, bytes)
    /\ result' = "Io"
    /\ pc' = "failed"
    /\ UNCHANGED <<fs, should_interrupt, index_paths, index_filenames_sorted,
                   index_id, entries, cf, num_large_offsets, chunk_pos, hash,
                   multi_index_checksum>>
    /\ UNCHANGED easy_vars

Next ==
    \/ SetInterrupt
    \/ NormalizePaths
    \/ CollectIndex
    \/ OpenIndexFails
    \/ SortAndDedup
    \/ PlanChunks
    \/ WriteHeader
    \/ WriteHeaderFails
    \/ IntoWrite
    \/ WriteChunk
    \/ WriteChecksum
    \/ IntoWriteFails
    \/ WriteChunkFails
    \/ WriteChecksumFails

Spec == Init /\ [][Next]_vars

TypeOK ==
    /\ pc \in {"sort_paths", "collect", "plan", "header", "chunk_table", "chunks",
               "done", "failed"}
    /\ result \in {"Running", "Ok", "Io", "Interrupted", "OpenIndex"}

\* ------------------------------------------------------------------ claims
\* The entry list is the deduplicated one: the planner and the writers run.
PostDedup == pc \in {"plan", "header", "chunk_table", "chunks", "done"}

\* The index file of pack ordinal k (from 0), once the paths are sorted.
IndexAt(k) == fs[index_paths[k + 1]]

Ordinals == 0..(Len(index_paths) - 1)

IdsOf(file) == {file.records[j].oid : j \in DOMAIN file.records}

\* The offset an index records for an id it holds.
OffsetIn(file, id) ==
    file.records[CHOOSE j \in DOMAIN file.records : file.records[j].oid = id].pack_offset

\* The pack ordinals whose index holds the id.
Holders(id) == {k \in Ordinals : id \in IdsOf(IndexAt(k))}

\* C1: after deduplication the entry list handed to the planner and the
\* writers has strictly ascending ids, and its ids are exactly the ids that
\* occur in some input index.
C1_DedupStrictlyAscending ==
    PostDedup =>
        /\ \A i \in 1..(Len(entries) - 1) : entries[i].id < entries[i + 1].id
        /\ {entries[i].id : i \in DOMAIN entries}
               = UNION {IdsOf(IndexAt(k)) : k \in Ordinals}

\* An id held by the indices of two paths was collapsed and another id survived beside it.
C1_Witness ==
    /\ pc = "plan"
    /\ Len(entries) = 2
    /\ \E id \in Oids : \E j, k \in Holders(id) :
          index_paths[j + 1] # index_paths[k + 1]

\* The holder whose record survives: the newest modification time, and the
\* lowest ordinal among the holders that tie on it.
Winner(id) ==
    CHOOSE k \in Holders(id) :
        \A j \in Holders(id) :
            \/ ResolveMtime(IndexAt(k)) > ResolveMtime(IndexAt(j))
            \/ ResolveMtime(IndexAt(k)) = ResolveMtime(IndexAt(j)) /\ k <= j

\* C2: the entry that survives for an id is the record of the index with the
\* newest modification time, of the lowest pack ordinal among those that tie;
\* its pack_index and pack_offset are both that index's.
C2_NewestIndexWins ==
    PostDedup =>
        \A i \in DOMAIN entries :
            /\ entries[i].pack_index = Winner(entries[i].id)
            /\ entries[i].pack_offset
                   = OffsetIn(IndexAt(Winner(entries[i].id)), entries[i].id)

\* An id held at different offsets by an older index of a lower ordinal and a
\* newer index of a higher ordinal has been deduplicated.
C2_Witness ==
    /\ pc = "plan"
    /\ \E id \in Oids : \E j, k \in Holders(id) :
          /\ j < k
          /\ ResolveMtime(IndexAt(j)) < ResolveMtime(IndexAt(k))
          /\ OffsetIn(IndexAt(j), id) # OffsetIn(IndexAt(k), id)

\* C3: when the interrupt flag is set while an index is still to be collected,
\* the operation does not return Ok with a complete file.
C3_InterruptPreventsOk ==
    (should_interrupt /\ Len(index_paths) > 0) => result # "Ok"

\* ------------------------------------------------- reading the written file
\* The number of fields of the header.
HeaderFieldCount == Len(HeaderFields(0, 0, Kind_Sha1))

\* The chunk count byte and the pack-file count of a written header.
ReadNumChunks(out) == out[4].v[2]
ReadNumIndices(out) == out[6].v[2]

\* The k-th entry of the table of contents.
TableId(out, k) == out[HeaderFieldCount + 2 * k - 1].v[2]
TableOffset(out, k) == out[HeaderFieldCount + 2 * k].v[2]

HasTable(out) ==
    /\ Len(out) >= HeaderFieldCount
    /\ Len(out) >= HeaderFieldCount + 2 * (ReadNumChunks(out) + 1)

\* The index of the field that starts at byte offset off, 0 when none does.
RECURSIVE ScanTo(_, _, _, _)
ScanTo(out, i, before, off) ==
    IF before = off THEN i
    ELSE IF i > Len(out) \/ before > off THEN 0
    ELSE ScanTo(out, i + 1, before + out[i].w * out[i].n, off)

FieldIndexAt(out, off) == ScanTo(out, 1, 0, off)

\* The fields of the k-th chunk: from its offset up to the offset of the next
\* entry of the table; empty when the file does not hold them.
ChunkFields(out, k) ==
    LET from == FieldIndexAt(out, TableOffset(out, k))
        to == FieldIndexAt(out, TableOffset(out, k + 1))
    IN  IF from = 0 \/ to = 0 \/ to < from THEN <<>> ELSE SubSeq(out, from, to - 1)

\* The fields of the chunk with the given id, empty when the table has none.
ChunkFieldsOf(out, id) ==
    LET ks == {k \in 1..ReadNumChunks(out) : TableId(out, k) = id}
    IN  IF ks = {} THEN <<>> ELSE ChunkFields(out, CHOOSE k \in ks : TRUE)

Count(s, x) == Cardinality({i \in DOMAIN s : s[i] = x})

\* C4: the paths are sorted in ascending path order, none lost or added; the
\* pack-file count of the written header is the number of paths; the names
\* handed to and written by the name chunk are the terminal components in that
\* order; and position k of the list is the pack of the entries with
\* pack_index = k.
C4_NormalizeStep ==
    (pc = "sort_paths" /\ pc' = "collect") =>
        /\ \A p \in PathUniverse : Count(index_paths', p) = Count(index_paths, p)
        /\ \A i \in 1..(Len(index_paths') - 1) :
              ~PathLess(index_paths'[i + 1], index_paths'[i])
        /\ index_filenames_sorted'
               = [k \in 1..Len(index_paths') |-> index_paths'[k][2]]

C4_Written ==
    /\ pc \in {"chunk_table", "chunks", "done"} =>
          ReadNumIndices(sink) = Len(index_paths)
    /\ pc = "done" =>
          ChunkFieldsOf(sink, index_names_ID)
              = Flatten([k \in 1..Len(index_paths) |->
                    <<Field(index_paths[k][2], Num(index_paths[k][2])),
                      Field(1, Num(0))>>])
    /\ PostDedup =>
          \A i \in DOMAIN entries :
              /\ entries[i].pack_index \in Ordinals
              /\ entries[i].id \in IdsOf(IndexAt(entries[i].pack_index))
              /\ entries[i].pack_offset
                     = OffsetIn(IndexAt(entries[i].pack_index), entries[i].id)

C4_PackCountAndNames == [][C4_NormalizeStep]_vars /\ []C4_Written

\* Two paths given in descending order, whose names ascend, were written.
C4_Witness ==
    /\ pc = "done"
    /\ index_paths = <<<<1, 2>>, <<2, 1>>>>
    /\ Len(entries) >= 1

\* An entry whose offset is 2^31 or more survives.
HasLargeEntry == \E i \in DOMAIN entries : entries[i].pack_offset[1] >= 1

\* C5: the large-offset chunk is planned exactly when a surviving entry has an
\* offset of 2^31 or more; the chunk count of the header is then 5 and else 4,
\* the number of chunks planned and written, in the order names, fanout,
\* lookup, offsets, large offsets.
C5_LargeOffsetChunkPlanned ==
    LET ids == IF HasLargeEntry
               THEN <<index_names_ID, fanout_ID, lookup_ID, offsets_ID,
                      large_offsets_ID>>
               ELSE <<index_names_ID, fanout_ID, lookup_ID, offsets_ID>>
    IN  /\ pc \in {"header", "chunk_table", "chunks", "done"} =>
              [k \in DOMAIN cf |-> cf[k].id] = ids
        /\ pc \in {"chunk_table", "chunks", "done"} =>
              /\ sink[4].w = 1
              /\ ReadNumChunks(sink) = Len(ids)
        /\ pc \in {"chunks", "done"} =>
              /\ HasTable(sink)
              /\ \A k \in DOMAIN ids : TableId(sink, k) = ids[k]
              /\ TableId(sink, Len(ids) + 1) = 0
        /\ pc = "done" =>
              /\ chunk_pos = Len(ids)
              /\ \A k \in DOMAIN ids :
                    /\ FieldIndexAt(sink, TableOffset(sink, k)) # 0
                    /\ ByteLen(ChunkFields(sink, k)) = cf[k].size
              /\ ByteLen(sink) = TableOffset(sink, Len(ids) + 1) + HashLen

\* A file with a large-offset chunk was written for entries of which one needs
\* no large offset.
C5_Witness ==
    /\ pc = "done"
    /\ HasLargeEntry
    /\ \E i \in DOMAIN entries : entries[i].pack_offset[1] = 0

\* C6: in the written file the offset slot of an entry with an offset of 2^31
\* or more has the high bit set and, in its low 31 bits, the number of such
\* entries before it, and the 8-byte value at that index of the large-offset
\* chunk is the entry's offset; the slot of any other entry is the offset
\* itself, high bit clear.
C6_LargeOffsetsRoundTrip ==
    pc = "done" =>
        LET slots == ChunkFieldsOf(sink, offsets_ID)
            large == ChunkFieldsOf(sink, large_offsets_ID)
        IN  /\ Len(slots) = 2 * Len(entries)
            /\ Len(large) = Cardinality({i \in DOMAIN entries :
                                            entries[i].pack_offset[1] >= 1})
            /\ \A i \in DOMAIN entries :
                  LET slot == slots[2 * i]
                      off == entries[i].pack_offset
                  IN  /\ slot.w = 4
                      /\ slot.n = 1
                      /\ IF off[1] >= 1
                         THEN /\ slot.v[1] = 1
                              /\ slot.v[2] = Cardinality({j \in 1..(i - 1) :
                                                entries[j].pack_offset[1] >= 1})
                              /\ slot.v[2] + 1 \in DOMAIN large
                              /\ large[slot.v[2] + 1] = Field(8, off)
                         ELSE slot.v = off /\ slot.v[1] = 0

\* Two entries with different offsets of 2^31 or more were written.
C6_Witness ==
    /\ pc = "done"
    /\ Len(entries) = 2
    /\ entries[1].pack_offset = <<2, 5>>
    /\ entries[2].pack_offset = <<1, 0>>

\* A complete file: the header, the table of contents of every planned chunk,
\* the payload of every planned chunk in its planned size, and the checksum.
CompleteFile(out) ==
    /\ Len(out) > HeaderFieldCount
    /\ out[1] = Field(4, Num(SIGNATURE))
    /\ ByteLen(SubSeq(out, 1, HeaderFieldCount)) = HEADER_LEN
    /\ ReadNumChunks(out) = Len(cf)
    /\ HasTable(out)
    /\ ByteLen(out) = TableOffset(out, Len(cf) + 1) + HashLen
    /\ out[Len(out)].w = HashLen
    /\ \A k \in DOMAIN cf :
          /\ TableId(out, k) = cf[k].id
          /\ FieldIndexAt(out, TableOffset(out, k)) # 0
          /\ ByteLen(ChunkFields(out, k)) = cf[k].size

C7_Returned ==
    /\ result = "Ok" => pc = "done" /\ CompleteFile(sink)
    /\ result = "Io" => pc = "failed" /\ ~CompleteFile(sink)

C7_AfterReturn == result # "Running" => (sink' = sink /\ result' = result)

\* C7: Ok is returned only with the header, every planned chunk and the
\* checksum in the sink; a failed write returns Io with an incomplete file, and
\* once the operation has returned the sink and the outcome do not change.
C7_NoPartialSuccess == []C7_Returned /\ [][C7_AfterReturn]_vars

\* A write of the fanout writer failed after the names, some slots of the fanout
\* and a part of the next slot had been written.
C7_Witness ==
    /\ result = "Io"
    /\ pc = "failed"
    /\ chunk_pos = 2
    /\ LET written == ByteLen(sink) - ChunkOffset(cf, 2, HEADER_LEN)
       IN  written > 4 /\ written < FanoutSize /\ written % 4 # 0

\* The listings of the same paths in every order.
Permutations(s) ==
    {q \in [DOMAIN s -> Range(s)] : \A x \in Range(s) : Count(q, x) = Count(s, x)}

\* What a run without failures on the listing paths writes and returns.
RunOutput(paths) ==
    LET sorted == SortPaths(paths)
        names == FileNames(sorted)
        es == Deduplicate(Flatten([k \in DOMAIN sorted |->
                                      EntriesOf(fs[sorted[k]], k - 1)]))
        plan == PlannedChunks(names, es)
        body == HeaderFields(Len(plan), Len(sorted), Kind_Sha1)
                \o ChunkTable(plan, HEADER_LEN)
                \o Flatten([k \in DOMAIN plan |-> ChunkPayload(plan[k].id, names, es)])
    IN  [file |-> Append(body, Field(HashLen, Digest(body))),
         checksum |-> Digest(body)]

\* C8: what a successful run wrote and returned is what a run on any other
\* listing of the same paths, over the same files, writes and returns.
C8_OrderIndependent ==
    pc = "done" =>
        \A q \in Permutations(index_paths) :
            RunOutput(q) = [file |-> sink, checksum |-> multi_index_checksum]

\* A run over two different paths whose indices hold objects has succeeded.
C8_Witness ==
    /\ pc = "done"
    /\ Cardinality(Range(index_paths)) = 2
    /\ Len(entries) = 2

C9_NothingWrittenEarly ==
    /\ pc \in {"sort_paths", "collect", "plan"} => sink = <<>>
    /\ result = "OpenIndex" => sink = <<>> /\ pc = "failed"
    /\ sink # <<>> =>
          /\ index_id = Len(index_paths)
          /\ \A k \in Ordinals : IndexAt(k).readable
          /\ \A i \in 1..(Len(entries) - 1) : entries[i].id < entries[i + 1].id

C9_EntriesStable ==
    pc \in {"header", "chunk_table", "chunks"} => entries' = entries

\* C9: nothing reaches the sink before every index was read and the entries
\* were sorted and deduplicated; a failure to open an index returns OpenIndex
\* with an empty sink; the entry list does not change while the file is written.
C9_CollectBeforeWrite == []C9_NothingWrittenEarly /\ [][C9_EntriesStable]_vars

\* The second index could not be opened after the first had been collected.
C9_Witness ==
    /\ result = "OpenIndex"
    /\ index_id >= 1
    /\ entries # <<>>

\* C10: on success the last field of the sink is the checksum, the digest of
\* everything written before it, header of 12 bytes included, and of nothing
\* else; the checksum returned is the checksum written.
C10_TrailingChecksum ==
    pc = "done" =>
        LET n == Len(sink)
        IN  /\ n > HeaderFieldCount
            /\ ByteLen(SubSeq(sink, 1, HeaderFieldCount)) = HEADER_LEN
            /\ sink[n] = Field(HashLen, multi_index_checksum)
            /\ multi_index_checksum = Digest(SubSeq(sink, 1, n - 1))
            /\ hash = SubSeq(sink, 1, n - 1)

\* A file with all five chunks was written and its checksum returned.
C10_Witness ==
    /\ pc = "done"
    /\ result = "Ok"
    /\ Len(cf) = 5
    /\ Len(entries) = 2

\* ------------------------------------------------------------ easy::State
\* RefCell: try_borrow succeeds unless a RefMut is alive, try_borrow_mut only
\* when no guard is alive; borrow and borrow_mut panic where those fail.
CanBorrow(cell) == ~cell.writer
CanBorrowMut(cell) == ~cell.writer /\ cell.readers = 0

\* What file.packed() may give: no packed-refs file, or its buffer.
PackedResults == {"None", "Some"}

\* No write_from_index_paths call is part of the runs over a State.
NoWrite ==
    /\ index_paths = <<>>
    /\ fs = <<>>
    /\ should_interrupt = FALSE
    /\ index_filenames_sorted = <<>>
    /\ index_id = 0
    /\ entries = <<>>
    /\ cf = <<>>
    /\ num_large_offsets = 0
    /\ chunk_pos = 0
    /\ sink = <<>>
    /\ hash = <<>>
    /\ multi_index_checksum = NoChecksum
    /\ result = "Running"
    /\ pc = "sort_paths"

InitEasy == NoWrite /\ StateDefault

\* assure_packed_refs_present, line 108 only: the buffer is there already.
AssureAlreadyPresent ==
    /\ outcome # "panic"
    /\ CanBorrow(packed_refs)
    /\ packed_refs.value # "None"
    /\ outcome' = "ok"
    /\ UNCHANGED <<packed_refs, pack_cache, buf, write_vars>>

\* Line 109: file.packed()? is evaluated first and returns its error.
AssureOpenFails ==
    /\ outcome # "panic"
    /\ CanBorrow(packed_refs)
    /\ packed_refs.value = "None"
    /\ outcome' = "open_error"
    /\ UNCHANGED <<packed_refs, pack_cache, buf, write_vars>>

\* Line 109: borrow_mut() finds no guard alive and the result is stored.
AssureLoads ==
    /\ outcome # "panic"
    /\ CanBorrow(packed_refs)
    /\ packed_refs.value = "None"
    /\ CanBorrowMut(packed_refs)
    /\ \E loaded \in PackedResults :
          packed_refs' = [packed_refs EXCEPT !.value = loaded]
    /\ outcome' = "ok"
    /\ UNCHANGED <<pack_cache, buf, write_vars>>

\* Line 108: borrow() with a RefMut alive, or line 109: borrow_mut() with a
\* guard alive, panics.
AssurePanics ==
    /\ outcome # "panic"
    /\ IF CanBorrow(packed_refs)
       THEN packed_refs.value = "None" /\ ~CanBorrowMut(packed_refs)
       ELSE TRUE
    /\ outcome' = "panic"
    /\ UNCHANGED <<packed_refs, pack_cache, buf, write_vars>>

\* try_borrow_packed_refs
TryBorrowPackedRefs ==
    /\ outcome # "panic"
    /\ packed_refs.readers < MaxGuards
    /\ IF CanBorrow(packed_refs)
       THEN /\ packed_refs' = [packed_refs EXCEPT !.readers = @ + 1]
            /\ outcome' = "guard"
       ELSE /\ outcome' = "borrow_error"
            /\ UNCHANGED packed_refs
    /\ UNCHANGED <<pack_cache, buf, write_vars>>

\* try_borrow_mut_pack_cache
TryBorrowMutPackCache ==
    /\ outcome # "panic"
    /\ IF CanBorrowMut(pack_cache)
       THEN /\ pack_cache' = [pack_cache EXCEPT !.writer = TRUE]
            /\ outcome' = "guard"
       ELSE /\ outcome' = "borrow_error"
            /\ UNCHANGED pack_cache
    /\ UNCHANGED <<packed_refs, buf, write_vars>>

\* try_borrow_mut_buf
TryBorrowMutBuf ==
    /\ outcome # "panic"
    /\ IF CanBorrowMut(buf)
       THEN /\ buf' = [buf EXCEPT !.writer = TRUE]
            /\ outcome' = "guard"
       ELSE /\ outcome' = "borrow_error"
            /\ UNCHANGED buf
    /\ UNCHANGED <<packed_refs, pack_cache, write_vars>>

\* try_borrow_buf
TryBorrowBuf ==
    /\ outcome # "panic"
    /\ buf.readers < MaxGuards
    /\ IF CanBorrow(buf)
       THEN /\ buf' = [buf EXCEPT !.readers = @ + 1]
            /\ outcome' = "guard"
       ELSE /\ outcome' = "borrow_error"
            /\ UNCHANGED buf
    /\ UNCHANGED <<packed_refs, pack_cache, write_vars>>

\* A Ref returned by try_borrow_packed_refs is dropped.
DropPackedRefsRef ==
    /\ outcome # "panic"
    /\ packed_refs.readers > 0
    /\ packed_refs' = [packed_refs EXCEPT !.readers = @ - 1]
    /\ UNCHANGED <<pack_cache, buf, outcome, write_vars>>

\* The RefMut returned by try_borrow_mut_pack_cache is dropped.
DropPackCacheMut ==
    /\ outcome # "panic"
    /\ pack_cache.writer
    /\ pack_cache' = [pack_cache EXCEPT !.writer = FALSE]
    /\ UNCHANGED <<packed_refs, buf, outcome, write_vars>>

\* A Ref returned by try_borrow_buf is dropped.
DropBufRef ==
    /\ outcome # "panic"
    /\ buf.readers > 0
    /\ buf' = [buf EXCEPT !.readers = @ - 1]
    /\ UNCHANGED <<packed_refs, pack_cache, outcome, write_vars>>

\* The RefMut returned by try_borrow_mut_buf is dropped.
DropBufMut ==
    /\ outcome # "panic"
    /\ buf.writer
    /\ buf' = [buf EXCEPT !.writer = FALSE]
    /\ UNCHANGED <<packed_refs, pack_cache, outcome, write_vars>>

NextEasy ==
    \/ AssureAlreadyPresent
    \/ AssureOpenFails
    \/ AssureLoads
    \/ AssurePanics
    \/ TryBorrowPackedRefs
    \/ TryBorrowMutPackCache
    \/ TryBorrowMutBuf
    \/ TryBorrowBuf
    \/ DropPackedRefsRef
    \/ DropPackCacheMut
    \/ DropBufRef
    \/ DropBufMut

SpecEasy == InitEasy /\ [][NextEasy]_vars

\* C11: no sequence of calls on a State and drops of their guards ends in a
\* panic: an access that conflicts with a guard still alive is an error value.
C11_ConflictNeverPanics == outcome # "panic"

====
